---------------------------- MODULE Spec2Model ----------------------------
(***************************************************************************)
(* A model of the code reviewer of src/code_reviewer/app: the diff parsers,*)
(* the pyright report parser, the prompt builder, the diff acquisition     *)
(* fallbacks and the main script.                                          *)
(*                                                                         *)
(* Text is modelled as a sequence of one-character strings, so that the    *)
(* parsers split, strip and convert characters as the Python code does.    *)
(* A Python dict that is iterated is a sequence of [k, v] records in       *)
(* insertion order; a dict that is only looked up is a function.           *)
(***************************************************************************)
EXTENDS Integers, Sequences, FiniteSets, TLC

VARIABLES
    pc,                \* the position of the running call or script
    diff_items,        \* the diff as git produced it, line by line (structured)
    unified_diff,      \* the diff text handed to the parsers
    changed_lines,     \* result of _parse_unified_diff_lines
    file_diffs,        \* the FileDiffMap: sequence of [k |-> path, v |-> lines]
    report,            \* the analyzer's findings, line by line (structured)
    pyright_output,    \* the analyzer's output text
    interested_lines,  \* the interest list handed to parse_pyright_output
    result,            \* result of parse_pyright_output
    pyright_results,   \* the FileAnalysisMap: path -> (line -> messages)
    full_diff,         \* the full-context diff text
    lines,             \* the prompt lines built by build_prompt
    repo,              \* the repository and process environment of a run
    trace,             \* the stages a run has entered, in order
    exit_code          \* -1 while running, else the process exit status

vars == <<pc, diff_items, unified_diff, changed_lines, file_diffs, report,
          pyright_output, interested_lines, result, pyright_results,
          full_diff, lines, repo, trace, exit_code>>

-----------------------------------------------------------------------------
(* Bounds of the model.                                                    *)

\* longest diff, in lines, handed to the diff parsers
MaxDiffLines == 3
\* longest analyzer report, in lines
MaxReportLines == 2
\* most files in one FileDiffMap or one change
MaxFiles == 2

-----------------------------------------------------------------------------
(* Python's str operations, on sequences of characters.                    *)

Digits == <<"0", "1", "2", "3", "4", "5", "6", "7", "8", "9">>

DigitChars == {Digits[i] : i \in 1..10}

Whitespace == {" ", "\t", "\n"}

DigitValue(c) == (CHOOSE i \in 1..10 : Digits[i] = c) - 1

Drop(s, k) == SubSeq(s, k + 1, Len(s))

\* str.startswith
StartsWith(s, p) == Len(s) >= Len(p) /\ SubSeq(s, 1, Len(p)) = p

\* str.endswith
EndsWith(s, p) == Len(s) >= Len(p) /\ SubSeq(s, Len(s) - Len(p) + 1, Len(s)) = p

\* the `in` operator on strings
Contains(s, p) == \E i \in 0..(Len(s) - Len(p)) : SubSeq(s, i + 1, i + Len(p)) = p

\* the least member of a non-empty set of numbers
Least(S) == CHOOSE i \in S : \A j \in S : i <= j

\* the offsets at which p occurs in s
Occurrences(s, p) == {i \in 0..(Len(s) - Len(p)) : SubSeq(s, i + 1, i + Len(p)) = p}

RECURSIVE Split(_, _)
\* str.split(sep): cut at the leftmost separator, go on after it
Split(s, sep) ==
    IF Occurrences(s, sep) = {} THEN <<s>>
    ELSE LET i == Least(Occurrences(s, sep))
         IN  <<SubSeq(s, 1, i)>> \o Split(Drop(s, i + Len(sep)), sep)

\* str.splitlines(): split at line breaks, no empty last line
SplitLines(s) ==
    LET p == Split(s, <<"\n">>)
    IN  IF p[Len(p)] = <<>> THEN SubSeq(p, 1, Len(p) - 1) ELSE p

RECURSIVE Join(_, _)
\* sep.join(parts)
Join(parts, sep) ==
    IF parts = <<>> THEN <<>>
    ELSE IF Len(parts) = 1 THEN parts[1]
    ELSE parts[1] \o sep \o Join(Tail(parts), sep)

RECURSIVE LStrip(_)
LStrip(s) ==
    IF s # <<>> /\ Head(s) \in Whitespace THEN LStrip(Tail(s)) ELSE s

RECURSIVE RStrip(_)
RStrip(s) ==
    IF s # <<>> /\ s[Len(s)] \in Whitespace
    THEN RStrip(SubSeq(s, 1, Len(s) - 1)) ELSE s

\* str.strip()
Strip(s) == RStrip(LStrip(s))

\* str.isdigit()
IsDigit(s) == s # <<>> /\ \A i \in 1..Len(s) : s[i] \in DigitChars

RECURSIVE ToInt(_)
\* int(s) of a string of decimal digits
ToInt(s) ==
    IF s = <<>> THEN 0
    ELSE 10 * ToInt(SubSeq(s, 1, Len(s) - 1)) + DigitValue(s[Len(s)])

RECURSIVE Dec(_)
\* str(n) of a natural number
Dec(n) == IF n < 10 THEN <<Digits[n + 1]>> ELSE Dec(n \div 10) \o <<Digits[(n % 10) + 1]>>

RECURSIVE DigitRun(_)
\* the longest prefix of s made of digits: what \d+ matches at the start of s
DigitRun(s) ==
    IF s # <<>> /\ Head(s) \in DigitChars THEN <<Head(s)>> \o DigitRun(Tail(s)) ELSE <<>>

\* range(start, start + length) as a list
Range(start, length) == [i \in 1..length |-> start + i - 1]

-----------------------------------------------------------------------------
(* Python dicts that keep insertion order.                                 *)

Keys(d) == [i \in 1..Len(d) |-> d[i].k]

KeySet(d) == {d[i].k : i \in 1..Len(d)}

HasKey(d, key) == key \in KeySet(d)

\* d[key], for a key of d
Get(d, key) == d[CHOOSE i \in 1..Len(d) : d[i].k = key].v

\* d[key] = value
Put(d, key, value) ==
    IF HasKey(d, key)
    THEN [i \in 1..Len(d) |-> IF d[i].k = key THEN [k |-> key, v |-> value] ELSE d[i]]
    ELSE Append(d, [k |-> key, v |-> value])

\* d.setdefault(key, []).extend(values)
SetDefaultExtend(d, key, values) ==
    IF HasKey(d, key) THEN Put(d, key, Get(d, key) \o values)
    ELSE Append(d, [k |-> key, v |-> values])

-----------------------------------------------------------------------------
(* The hunk parsers.                                                       *)

AtAt == <<"@", "@">>

DiffGit == <<"d", "i", "f", "f", " ", "-", "-", "g", "i", "t">>

SepB == <<" ", "b", "/">>

NoMatch == [matched |-> FALSE, start |-> 0, length |-> 0]

MatchLengthTruthy(g2) == IF g2 # <<>> /\ ToInt(g2) # 0 THEN ToInt(g2) ELSE 1

\* int(match.group(2)) if match.group(2) else 1: g2 is <<>> when group 2
\* did not take part in the match; the text "0" is a true value in Python
MatchLength(g2) == IF g2 # <<>> THEN ToInt(g2) ELSE 1

\* re.search(r"\+(\d+)(?:,(\d+))?", line): the leftmost "+" followed by a
\* digit; group 1 is the digit run after it, group 2 the digit run after a
\* "," that follows group 1.  start = int(group 1), length = int(group 2)
\* when group 2 matched and 1 otherwise.
HunkSearch(line) ==
    LET at == {i \in 1..(Len(line) - 1) : line[i] = "+" /\ line[i + 1] \in DigitChars}
    IN  IF at = {} THEN NoMatch
        ELSE LET after == Drop(line, Least(at))
                 g1    == DigitRun(after)
                 rest  == Drop(after, Len(g1))
                 g2    == IF rest # <<>> /\ Head(rest) = ","
                          THEN DigitRun(Tail(rest)) ELSE <<>>
             IN  [matched |-> TRUE, start |-> ToInt(g1), length |-> MatchLength(g2)]

RECURSIVE ParseUnifiedLoop(_, _)
ParseUnifiedLoop(ls, acc) ==
    IF ls = <<>> THEN acc
    ELSE LET line == Head(ls)
             m    == HunkSearch(line)
         IN  IF StartsWith(line, AtAt) /\ m.matched
             THEN ParseUnifiedLoop(Tail(ls), acc \o Range(m.start, m.length))
             ELSE ParseUnifiedLoop(Tail(ls), acc)

_parse_unified_diff_lines(text) == ParseUnifiedLoop(SplitLines(text), <<>>)

NoFile == <<>>

\* lines 153-156: the new path of a "diff --git" line, or the file kept
FallbackHeader(line, current_file) ==
    LET parts == Split(line, SepB)
    IN  IF Len(parts) = 2 THEN parts[2] ELSE current_file

\* lines 158-163: a hunk line met while a file is current
FallbackHunk(d, line, current_file) ==
    LET m == HunkSearch(line)
    IN  IF m.matched
        THEN SetDefaultExtend(d, current_file, Range(m.start, m.length))
        ELSE d

RECURSIVE FallbackLoop(_, _, _)
FallbackLoop(ls, current_file, d) ==
    IF ls = <<>> THEN d
    ELSE LET line == Head(ls)
         IN  IF StartsWith(line, DiffGit)
             THEN FallbackLoop(Tail(ls), FallbackHeader(line, current_file), d)
             ELSE IF StartsWith(line, AtAt) /\ current_file # NoFile
             THEN FallbackLoop(Tail(ls), current_file, FallbackHunk(d, line, current_file))
             ELSE FallbackLoop(Tail(ls), current_file, d)

\* _get_diff_fallback, from the diff text on
ParseFallback(text) == FallbackLoop(SplitLines(text), NoFile, <<>>)

-----------------------------------------------------------------------------
(* The analyzer report parser.                                             *)

Colon == <<":">>

SepDash == <<" ", "-", " ">>

\* d.get(key, default)
GetOr(d, key, default) == IF HasKey(d, key) THEN Get(d, key) ELSE default

\* x in a list
InList(x, list) == \E i \in 1..Len(list) : list[i] = x

\* lines 273-276: the segments from the third on, rejoined with colons and
\* stripped, then without a leading " - " (which a stripped text never has)
MessageOf(parts) ==
    LET msg == Strip(Join(SubSeq(parts, 3, Len(parts)), Colon))
    IN  IF StartsWith(msg, SepDash) THEN Drop(msg, 3) ELSE msg

\* lines 258-280: one line of the output
ParseReportLine(res, raw, interested) ==
    LET line  == Strip(raw)
        parts == Split(line, Colon)
    IN  IF line = <<>> \/ ~Contains(line, Colon) THEN res
        ELSE IF Len(parts) >= 3 /\ IsDigit(parts[2]) /\ InList(ToInt(parts[2]), interested)
        THEN SetDefaultExtend(res, ToInt(parts[2]), <<MessageOf(parts)>>)
        ELSE res

RECURSIVE ParseReportLoop(_, _, _)
ParseReportLoop(ls, res, interested) ==
    IF ls = <<>> THEN res
    ELSE ParseReportLoop(Tail(ls), ParseReportLine(res, Head(ls), interested), interested)

parse_pyright_output(output, interested) ==
    IF output = <<>> \/ interested = <<>> THEN <<>>
    ELSE ParseReportLoop(SplitLines(output), <<>>, interested)

-----------------------------------------------------------------------------
(* The prompt builder.  A prompt line is the f-string that wrote it and    *)
(* the value it was filled with.                                           *)

Literal(text) == [fmt |-> text, arg |-> <<>>]

FileLine(file) == [fmt |-> "**File: {file}**", arg |-> file]

LineEntry(line_no) == [fmt |-> "  Line {line_no}:", arg |-> line_no]

MsgLine(msg) == [fmt |-> "    {msg}", arg |-> msg]

SectionHeader == Literal("## Static Analysis (Pyright) Issues")

\* lines 347-352; <fence> stands for the three backquotes of a code fence
PromptHead(full) ==
    << Literal("## Code Changes"), Literal(""),
       Literal("Here is the git diff showing the actual code changes:"),
       Literal("<fence>diff"), [fmt |-> "{full_diff}", arg |-> full], Literal("<fence>"),
       Literal("") >>

\* lines 355-357: some issue list anywhere in the analysis map is not empty
HasPyrightIssues(pr) ==
    \E i \in 1..Len(pr) : \E j \in 1..Len(pr[i].v) : pr[i].v[j].v # <<>>

PyrightMsgsAnyFile(pr, file, line_no) ==
    IF \E i \in 1..Len(pr) : GetOr(pr[i].v, line_no, <<>>) # <<>>
    THEN GetOr(pr[CHOOSE i \in 1..Len(pr) : GetOr(pr[i].v, line_no, <<>>) # <<>>].v, line_no, <<>>)
    ELSE <<>>

\* line 366: pyright_results.get(file, {}).get(line_no, [])
PyrightMsgs(pr, file, line_no) == GetOr(GetOr(pr, file, <<>>), line_no, <<>>)

RECURSIVE FileIssues(_, _, _)
\* lines 364-371: the entries of one file, along its changed lines
FileIssues(changed, file, pr) ==
    IF changed = <<>> THEN <<>>
    ELSE LET msgs == PyrightMsgs(pr, file, Head(changed))
         IN  (IF msgs # <<>>
              THEN <<LineEntry(Head(changed))>> \o [m \in 1..Len(msgs) |-> MsgLine(msgs[m])]
              ELSE <<>>) \o FileIssues(Tail(changed), file, pr)

RECURSIVE FileBlocks(_, _)
\* lines 362-376: file_has_issues is set exactly when file_issues gets an entry
FileBlocks(fd, pr) ==
    IF fd = <<>> THEN <<>>
    ELSE LET file_issues == FileIssues(Head(fd).v, Head(fd).k, pr)
         IN  (IF file_issues # <<>>
              THEN <<FileLine(Head(fd).k)>> \o file_issues \o <<Literal("")>>
              ELSE <<>>) \o FileBlocks(Tail(fd), pr)

\* the list `lines` that build_prompt joins with line breaks
build_prompt(fd, pr, full) ==
    PromptHead(full)
        \o (IF HasPyrightIssues(pr)
            THEN <<SectionHeader, Literal("")>> \o FileBlocks(fd, pr)
            ELSE <<>>)

-----------------------------------------------------------------------------
(* The analyzer invocation.  A run is what the file system and the pyright  *)
(* process do for one file: [exists, proc, output_none, output].           *)

\* the working tree directory of the repository
WorkDir == <<"/", "w">>

Slash == <<"/">>

ExtPy == <<".", "p", "y">>

ExtPyi == <<".", "p", "y", "i">>

\* Path.is_absolute()
IsAbsolute(file) == StartsWith(file, Slash)

\* file_path.relative_to(working_dir) succeeds
UnderWorkDir(file) == StartsWith(file, WorkDir \o Slash)

\* lines 207-212
RelPath(file) == IF IsAbsolute(file) THEN Drop(file, Len(WorkDir) + 1) ELSE file

\* line 216: the file is missing or is no Python file
Skipped(file, run) ==
    ~run.exists \/ ~(EndsWith(RelPath(file), ExtPy) \/ EndsWith(RelPath(file), ExtPyi))

\* the exception the try block of lines 206-226 raises, "none" without one
Raised(file, run) ==
    IF IsAbsolute(file) /\ ~UnderWorkDir(file) THEN "ValueError"
    ELSE IF Skipped(file, run) THEN "none"
    ELSE CASE run.proc = "nonzero"   -> "CalledProcessError"
           [] run.proc = "timeout"   -> "TimeoutExpired"
           [] run.proc = "no_binary" -> "FileNotFoundError"
           [] OTHER                  -> "none"

SoftFailuresNoBinary == {"TimeoutExpired", "ValueError"}

\* line 229: the exceptions that leave the file with an empty issue map
SoftFailures == {"TimeoutExpired", "FileNotFoundError", "ValueError"}

\* lines 206-236 for one file: [raised, issues]
PyrightOnFile(file, changed, run) ==
    LET e == Raised(file, run)
    IN  IF e = "none"
        THEN [raised |-> "none",
              issues |-> IF Skipped(file, run) THEN <<>>
                         ELSE parse_pyright_output(run.output, changed)]
        ELSE IF e = "CalledProcessError"
        THEN [raised |-> "none",
              issues |-> parse_pyright_output(IF run.output_none THEN <<>> ELSE run.output,
                                              changed)]
        ELSE IF e \in SoftFailures THEN [raised |-> "none", issues |-> <<>>]
        ELSE [raised |-> e, issues |-> <<>>]

RECURSIVE RunPyrightLoop(_, _, _, _)
RunPyrightLoop(files, runs, i, results) ==
    IF i > Len(files) THEN [raised |-> "none", results |-> results]
    ELSE LET r == PyrightOnFile(files[i].k, files[i].v, runs[i])
         IN  IF r.raised # "none" THEN [raised |-> r.raised, results |-> results]
             ELSE RunPyrightLoop(files, runs, i + 1, Put(results, files[i].k, r.issues))

run_pyright_on_files(files, runs) == RunPyrightLoop(files, runs, 1, <<>>)

-----------------------------------------------------------------------------
(* Diff texts as git writes them, kept line by line beside their text so   *)
(* that what the parsers return can be compared with what was written.     *)

PathX == <<"x", ".", "p", "y">>

PathY == <<"y", ".", "p", "y">>

\* a file z.py in a directory named "d b"
PathD == <<"d", " ", "b", "/", "z", ".", "p", "y">>

Omitted == -1

FileItem(a, b) ==
    [kind |-> "file", a |-> a, b |-> b, os |-> 0, ol |-> 0, s |-> 0, n |-> 0, text |-> <<>>]

HunkItem(os, ol, s, n) ==
    [kind |-> "hunk", a |-> <<>>, b |-> <<>>, os |-> os, ol |-> ol, s |-> s, n |-> n, text |-> <<>>]

TextItem(text) ==
    [kind |-> "text", a |-> <<>>, b |-> <<>>, os |-> 0, ol |-> 0, s |-> 0, n |-> 0, text |-> text]

\* "start" or "start,len" of a hunk header
RenderSpan(start, len) ==
    IF len = Omitted THEN Dec(start) ELSE Dec(start) \o <<",">> \o Dec(len)

RenderItem(it) ==
    CASE it.kind = "file" ->
            DiffGit \o <<" ", "a", "/">> \o it.a \o <<" ", "b", "/">> \o it.b
      [] it.kind = "hunk" ->
            <<"@", "@", " ", "-">> \o RenderSpan(it.os, it.ol) \o <<" ", "+">>
                \o RenderSpan(it.s, it.n) \o <<" ", "@", "@">>
      [] OTHER -> it.text

RenderDiff(items) == Join([i \in 1..Len(items) |-> RenderItem(items[i])], <<"\n">>)

DiffLineItems ==
    { FileItem(PathX, PathX), FileItem(PathX, PathY), FileItem(PathD, PathD),
      HunkItem(5, 2, 10, 3), HunkItem(1, 1, 1, Omitted), HunkItem(3, 5, 4, 0),
      TextItem(<<"@", "@", " ", "b", "a", "d">>), TextItem(<<"+", "q", " ", "=", " ", "1">>) }

SeqsUpTo(S, n) == UNION {[1..k -> S] : k \in 0..n}

DiffTexts == SeqsUpTo(DiffLineItems, MaxDiffLines)

-----------------------------------------------------------------------------
(* The variables a specification does not use keep these values.           *)

DiffIdle == diff_items = <<>> /\ unified_diff = <<>> /\ changed_lines = <<>>

ReportIdle ==
    report = <<>> /\ pyright_output = <<>> /\ interested_lines = <<>> /\ result = <<>>

PromptIdle == full_diff = <<>> /\ lines = <<>>

RunIdle == repo = <<>> /\ trace = <<>> /\ exit_code = -1

diffVars == <<diff_items, unified_diff, changed_lines>>

reportVars == <<report, pyright_output, interested_lines, result>>

promptVars == <<full_diff, lines>>

runVars == <<repo, trace, exit_code>>

-----------------------------------------------------------------------------
(* SpecDiff: the two hunk parsers on one diff text.                        *)

InitDiff ==
    /\ pc = "start"
    /\ diff_items \in DiffTexts
    /\ unified_diff = RenderDiff(diff_items)
    /\ changed_lines = <<>>
    /\ file_diffs = <<>>
    /\ pyright_results = <<>>
    /\ ReportIdle /\ PromptIdle /\ RunIdle

ParseUnifiedDiffLines ==
    /\ pc = "start"
    /\ changed_lines' = _parse_unified_diff_lines(unified_diff)
    /\ pc' = "parsed"
    /\ UNCHANGED <<diff_items, unified_diff, file_diffs, pyright_results,
                   reportVars, promptVars, runVars>>

GetDiffFallbackParse ==
    /\ pc = "parsed"
    /\ file_diffs' = ParseFallback(unified_diff)
    /\ pc' = "done"
    /\ UNCHANGED <<diffVars, pyright_results, reportVars, promptVars, runVars>>

NextDiff == ParseUnifiedDiffLines \/ GetDiffFallbackParse

SpecDiff == InitDiff /\ [][NextDiff]_vars

-----------------------------------------------------------------------------
(* What the written diff says, read off diff_items without parsing.        *)

\* the new length of a hunk: 1 when ",n" is omitted
NewLen(it) == IF it.n = Omitted THEN 1 ELSE it.n

\* the consecutive integers s, s+1, ..., s+n-1
HunkLines(it) == [i \in 1..NewLen(it) |-> it.s + i - 1]

\* a file header the fallback parser can split: no path holds " b/"
Splittable(it) == ~Contains(it.a, SepB) /\ ~Contains(it.b, SepB)

SetMax(S) == CHOOSE m \in S : \A j \in S : j <= m

\* the new path of the most recent file header before line i (of the most
\* recent splittable one when `splittable`), NoFile when there is none
OwnerOf(items, i, splittable) ==
    LET J == {j \in 1..(i - 1) : /\ items[j].kind = "file"
                                 /\ (splittable => Splittable(items[j]))}
    IN  IF J = {} THEN NoFile ELSE items[SetMax(J)].b

RECURSIVE LinesOf(_, _, _, _)
\* the lines of the hunks among the first i lines that belong to `key`
LinesOf(items, key, i, splittable) ==
    IF i = 0 THEN <<>>
    ELSE LinesOf(items, key, i - 1, splittable)
            \o (IF items[i].kind = "hunk" /\ OwnerOf(items, i, splittable) = key
                THEN HunkLines(items[i]) ELSE <<>>)

RECURSIVE AllHunkLines(_)
\* the lines of all hunks, in the order the hunks occur
AllHunkLines(items) ==
    IF items = <<>> THEN <<>>
    ELSE (IF Head(items).kind = "hunk" THEN HunkLines(Head(items)) ELSE <<>>)
            \o AllHunkLines(Tail(items))

RECURSIVE TotalLen(_)
\* the total length of all changed-line lists of a FileDiffMap
TotalLen(d) == IF d = <<>> THEN 0 ELSE Len(Head(d).v) + TotalLen(Tail(d))

\* the files that own at least one hunk
Owners(items, splittable) ==
    {OwnerOf(items, i, splittable) : i \in {j \in 1..Len(items) : items[j].kind = "hunk"}}
        \ {NoFile}

C10_HunkUnderLatestHeader ==
    pc = "done" =>
        /\ KeySet(file_diffs) = Owners(diff_items, FALSE)
        /\ \A i \in 1..Len(file_diffs) :
              file_diffs[i].v = LinesOf(diff_items, file_diffs[i].k, Len(diff_items), FALSE)

-----------------------------------------------------------------------------
(* SpecPyright: parse_pyright_output on one analyzer report.               *)

MsgError == <<"e", "r", "r", ":", " ", "u">>

MsgWarn == <<"w", "a", "r", "n">>

IssueItem(path, line, col, msg) ==
    [kind |-> "issue", path |-> path, line |-> line, col |-> col, msg |-> msg, text |-> <<>>]

NoiseItem(text) ==
    [kind |-> "noise", path |-> <<>>, line |-> 0, col |-> 0, msg |-> <<>>, text |-> text]

\* "  <path>:<line>:<column> - <message>", indented as pyright prints it
RenderReportItem(it) ==
    IF it.kind = "issue"
    THEN <<" ", " ">> \o it.path \o Colon \o Dec(it.line) \o Colon \o Dec(it.col)
            \o SepDash \o it.msg
    ELSE it.text

RenderReport(items) ==
    Join([i \in 1..Len(items) |-> RenderReportItem(items[i])], <<"\n">>)

ReportLineItems ==
    { IssueItem(PathX, 12, 5, MsgError), IssueItem(PathX, 12, 7, MsgWarn),
      IssueItem(PathX, 20, 1, MsgWarn), IssueItem(PathX, 3, 14, MsgError),
      NoiseItem(<<>>),
      NoiseItem(<<"n", "o", " ", "c", "o", "l", "o", "n", "s">>),
      NoiseItem(<<"x", ".", "p", "y", ":", " ", "7">>),
      NoiseItem(<<"x", ".", "p", "y", ":", "a", ":", "5", " ", "-", " ", "w">>) }

Reports == SeqsUpTo(ReportLineItems, MaxReportLines)

InterestLists == {<<>>, <<12, 20>>, <<20>>, <<3, 12>>}

InitPyright ==
    /\ pc = "start"
    /\ report \in Reports
    /\ pyright_output = RenderReport(report)
    /\ interested_lines \in InterestLists
    /\ result = <<>>
    /\ file_diffs = <<>>
    /\ pyright_results = <<>>
    /\ DiffIdle /\ PromptIdle /\ RunIdle

ParsePyrightOutput ==
    /\ pc = "start"
    /\ result' = parse_pyright_output(pyright_output, interested_lines)
    /\ pc' = "done"
    /\ UNCHANGED <<report, pyright_output, interested_lines, file_diffs,
                   pyright_results, diffVars, promptVars, runVars>>

NextPyright == ParsePyrightOutput

SpecPyright == InitPyright /\ [][NextPyright]_vars

RECURSIVE MessagesFor(_, _)
\* the messages of the findings that report line n, in the order written
MessagesFor(items, n) ==
    IF items = <<>> THEN <<>>
    ELSE (IF Head(items).kind = "issue" /\ Head(items).line = n
          THEN <<Head(items).msg>> ELSE <<>>) \o MessagesFor(Tail(items), n)

\* the line numbers in the interest list that some finding reports
ReportedInterest(items, interested) ==
    {n \in {interested[i] : i \in 1..Len(interested)} : MessagesFor(items, n) # <<>>}

\* C1: a finding "<path>:<line>:<column> - <message>" whose line is in the
\* interest list is recorded under that line as exactly <message>, without
\* the column or the separator; with no such finding the result is empty.
C1_ExactMessage ==
    pc = "done" =>
        /\ \A i \in 1..Len(report) :
              (report[i].kind = "issue" /\ InList(report[i].line, interested_lines))
                 => InList(report[i].msg, GetOr(result, report[i].line, <<>>))
        /\ \A j \in 1..Len(result) : \A m \in 1..Len(result[j].v) :
              InList(result[j].v[m], MessagesFor(report, result[j].k))
        /\ (ReportedInterest(report, interested_lines) = {} => result = <<>>)

\* C3: every key of the result is in the interest list, and the list under
\* a retained line is, in the order of the output, the messages of all
\* parseable lines that report it; other lines are skipped.
C3_FilteredInOrder ==
    pc = "done" =>
        /\ KeySet(result) = ReportedInterest(report, interested_lines)
        /\ \A j \in 1..Len(result) :
              result[j].v = MessagesFor(report, result[j].k)

-----------------------------------------------------------------------------
(* SpecPrompt: build_prompt, then call_openai, on maps of any content.     *)

PromptFileSeq == <<PathX, PathY, PathD>>

LineLists == {<<>>, <<1>>, <<2, 1>>}

DistinctKeys(d) == \A i, j \in 1..Len(d) : d[i].k = d[j].k => i = j

FileDiffMaps ==
    {d \in SeqsUpTo([k : {PromptFileSeq[i] : i \in 1..3}, v : LineLists], MaxFiles) :
        DistinctKeys(d)}

\* the choice that leaves a file out of the analysis map
Absent == <<[k |-> -1, v |-> <<>>]>>

LineIssueMaps ==
    { <<>>,
      <<[k |-> 1, v |-> <<MsgWarn>>]>>,
      <<[k |-> 2, v |-> <<MsgError, MsgWarn>>]>>,
      <<[k |-> 1, v |-> <<>>]>> }

RECURSIVE Present(_, _)
\* the analysis map that holds choice[i] for the i-th file, unless Absent
Present(choice, i) ==
    IF i > Len(choice) THEN <<>>
    ELSE (IF choice[i] = Absent THEN <<>>
          ELSE <<[k |-> PromptFileSeq[i], v |-> choice[i]]>>) \o Present(choice, i + 1)

FileAnalysisMaps == {Present(c, 1) : c \in [1..3 -> LineIssueMaps \cup {Absent}]}

FullDiffText == <<"+", "q">>

InitPrompt ==
    /\ pc = "start"
    /\ file_diffs \in FileDiffMaps
    /\ pyright_results \in FileAnalysisMaps
    /\ full_diff = FullDiffText
    /\ lines = <<>>
    /\ repo \in [api_key : BOOLEAN]
    /\ trace = <<>>
    /\ exit_code = -1
    /\ DiffIdle /\ ReportIdle

BuildPrompt ==
    /\ pc = "start"
    /\ lines' = build_prompt(file_diffs, pyright_results, full_diff)
    /\ pc' = "prompt_built"
    /\ UNCHANGED <<file_diffs, pyright_results, full_diff, diffVars, reportVars, runVars>>

\* call_openai, lines 399-408: without the credential the process exits
\* with status 1 before any request is made
CallOpenAI ==
    /\ pc = "prompt_built"
    /\ IF repo.api_key
       THEN /\ trace' = Append(trace, "call_openai")
            /\ pc' = "done"
            /\ UNCHANGED exit_code
       ELSE /\ trace' = Append(trace, "missing credential")
            /\ pc' = "exited"
            /\ exit_code' = 1
    /\ UNCHANGED <<file_diffs, pyright_results, promptVars, diffVars, reportVars, repo>>

NextPrompt == BuildPrompt \/ CallOpenAI

SpecPrompt == InitPrompt /\ [][NextPrompt]_vars

\* the issues the analysis map holds for line n of file f
IssuesAt(pr, f, n) ==
    IF \E i \in 1..Len(pr) : pr[i].k = f /\ \E j \in 1..Len(pr[i].v) : pr[i].v[j].k = n
    THEN LET i == CHOOSE i \in 1..Len(pr) : pr[i].k = f
             j == CHOOSE j \in 1..Len(pr[i].v) : pr[i].v[j].k = n
         IN  pr[i].v[j].v
    ELSE <<>>

RECURSIVE LinesWithIssues(_, _, _)
\* the changed lines of f that carry an issue, in the order of the list
LinesWithIssues(changed, f, pr) ==
    IF changed = <<>> THEN <<>>
    ELSE (IF IssuesAt(pr, f, Head(changed)) # <<>> THEN <<Head(changed)>> ELSE <<>>)
            \o LinesWithIssues(Tail(changed), f, pr)

RECURSIVE FilesWithIssues(_, _)
\* the files that have a changed line carrying an issue, in key order
FilesWithIssues(fd, pr) ==
    IF fd = <<>> THEN <<>>
    ELSE (IF LinesWithIssues(Head(fd).v, Head(fd).k, pr) # <<>> THEN <<Head(fd).k>> ELSE <<>>)
            \o FilesWithIssues(Tail(fd), pr)

IsFileLine(l) == l.fmt = "**File: {file}**"

IsLineEntry(l) == l.fmt = "  Line {line_no}:"

RECURSIVE ArgsOf(_, _)
\* the values of the lines of ls written by f-string fmt, in order
ArgsOf(ls, fmt) ==
    IF ls = <<>> THEN <<>>
    ELSE (IF Head(ls).fmt = fmt THEN <<Head(ls).arg>> ELSE <<>>) \o ArgsOf(Tail(ls), fmt)

\* the prompt lines of the block that the file line at index i opens
BlockAt(ls, i) ==
    LET after == {j \in (i + 1)..Len(ls) : IsFileLine(ls[j])}
        end   == IF after = {} THEN Len(ls) ELSE (CHOOSE j \in after : \A m \in after : j <= m) - 1
    IN  SubSeq(ls, i + 1, end)

C5_HeaderIffBlock ==
    pc # "start" =>
        (InList(SectionHeader, lines) <=> ArgsOf(lines, "**File: {file}**") # <<>>)

-----------------------------------------------------------------------------
(* SpecAnalyze: run_pyright_on_files on a map of any files.                *)

PathNote == <<"n", ".", "m", "d">>

\* a Python file outside the working tree, by its absolute path
PathOutside == <<"/", "o", "/", "y", ".", "p", "y">>

\* a Python file of the working tree, by its absolute path
PathInside == <<"/", "w", "/", "z", ".", "p", "y">>

AnalyzeFiles == {PathX, PathNote, PathOutside, PathInside}

\* the files pyright is never run on
NotAnalyzable == {PathNote, PathOutside}

AnalyzeLines == <<12, 20>>

ReportText == RenderReport(<<IssueItem(PathX, 12, 5, MsgWarn), IssueItem(PathX, 7, 1, MsgError)>>)

Run(exists, proc, output_none, output) ==
    [exists |-> exists, proc |-> proc, output_none |-> output_none, output |-> output]

Runs ==
    { Run(FALSE, "ok", FALSE, <<>>), Run(TRUE, "ok", FALSE, ReportText),
      Run(TRUE, "nonzero", FALSE, ReportText), Run(TRUE, "nonzero", TRUE, <<>>),
      Run(TRUE, "timeout", FALSE, <<>>), Run(TRUE, "no_binary", FALSE, <<>>) }

AnalyzeMaps ==
    {d \in SeqsUpTo([k : AnalyzeFiles, v : {AnalyzeLines}], MaxFiles) : DistinctKeys(d)}

InitAnalyze ==
    /\ pc = "start"
    /\ file_diffs \in AnalyzeMaps
    /\ repo \in {[runs |-> r] : r \in [1..Len(file_diffs) -> Runs]}
    /\ pyright_results = <<>>
    /\ trace = <<>>
    /\ exit_code = -1
    /\ DiffIdle /\ ReportIdle /\ PromptIdle

RunPyrightOnFiles ==
    /\ pc = "start"
    /\ LET r == run_pyright_on_files(file_diffs, repo.runs)
       IN  IF r.raised = "none"
           THEN /\ pyright_results' = r.results
                /\ pc' = "done"
                /\ UNCHANGED trace
           ELSE /\ pc' = "raised"
                /\ trace' = Append(trace, r.raised)
                /\ UNCHANGED pyright_results
    /\ UNCHANGED <<file_diffs, repo, exit_code, diffVars, reportVars, promptVars>>

NextAnalyze == RunPyrightOnFiles

SpecAnalyze == InitAnalyze /\ [][NextAnalyze]_vars

\* the issue map the i-th file must get: empty when the file is skipped or
\* its invocation fails softly, else the parsed output of its own run
ExpectedIssues(files, runs, i) ==
    IF \/ files[i].k \in NotAnalyzable
       \/ ~runs[i].exists
       \/ runs[i].proc \in {"timeout", "no_binary"}
       \/ runs[i].output_none
    THEN <<>>
    ELSE parse_pyright_output(runs[i].output, files[i].v)

\* C9: whatever each file's outcome, run_pyright_on_files returns and its
\* keys are those of the FileDiffMap; a skipped file and a file whose run
\* times out or finds no binary get an empty map, a non-zero exit has its
\* output parsed, and each file's entry depends on its own outcome only.
C9_EveryFileGetsAnEntry ==
    /\ pc # "raised"
    /\ pc = "done" =>
          /\ Keys(pyright_results) = Keys(file_diffs)
          /\ \A i \in 1..Len(file_diffs) :
                pyright_results[i].v = ExpectedIssues(file_diffs, repo.runs, i)

\* two files of which the first finds no pyright binary and the second
\* exits non-zero with a finding on a changed line
C9_Witness ==
    /\ pc = "done"
    /\ Len(file_diffs) = 2
    /\ repo.runs[1].proc = "no_binary" /\ repo.runs[1].exists
    /\ file_diffs[1].k = PathX
    /\ repo.runs[2].proc = "nonzero"
    /\ pyright_results[1].v = <<>>
    /\ pyright_results[2].v # <<>>

-----------------------------------------------------------------------------
(* Diff acquisition.  The repository of a run says which refs resolve      *)
(* (origin_ok, local_ok, parent_ok), whether GitPython's own diff of the   *)
(* two commits works (index_ok) and what the change is: a sequence of      *)
(* [a, b, deleted, hunks, diff_ok], diff_ok telling whether git can print  *)
(* the diff of that one file.                                              *)

DeletedMode ==
    TextItem(<<"d", "e", "l", "e", "t", "e", "d", " ", "f", "i", "l", "e">>)

RECURSIVE ItemsOf(_)
\* the lines git prints for a change with --unified=0: per file the header,
\* the deletion mark and the hunk headers
ItemsOf(change) ==
    IF change = <<>> THEN <<>>
    ELSE LET f == Head(change)
         IN  <<FileItem(f.a, f.b)>> \o (IF f.deleted THEN <<DeletedMode>> ELSE <<>>)
                \o f.hunks \o ItemsOf(Tail(change))

\* repo.git.diff(...) of the whole change, and of one file
GitDiffText(change) == RenderDiff(ItemsOf(change))

\* line 96: diff_item.b_path or diff_item.a_path
FilePath(f) == IF f.b # <<>> THEN f.b ELSE f.a

\* lines 93-114 for one item of the diff index
DiffItemStep(d, f) ==
    IF f.deleted \/ FilePath(f) = <<>> THEN d
    ELSE IF ~f.diff_ok THEN Put(d, FilePath(f), <<>>)
    ELSE LET changed == _parse_unified_diff_lines(GitDiffText(<<f>>))
         IN  IF changed # <<>> THEN Put(d, FilePath(f), changed) ELSE d

RECURSIVE DiffIndexLoop(_, _)
DiffIndexLoop(change, d) ==
    IF change = <<>> THEN d
    ELSE DiffIndexLoop(Tail(change), DiffItemStep(d, Head(change)))

\* _get_diff_fallback, lines 149-164: the diff against origin/<base> raises
\* when that ref does not resolve
_get_diff_fallback(r) ==
    IF r.origin_ok
    THEN [raised |-> FALSE, refs |-> <<"origin">>,
          file_diffs |-> ParseFallback(GitDiffText(r.change))]
    ELSE [raised |-> TRUE, refs |-> <<"origin">>, file_diffs |-> <<>>]

\* get_diff, lines 82-120: [raised, refs tried, file_diffs]
get_diff(r) ==
    IF r.origin_ok /\ r.index_ok
    THEN [raised |-> FALSE, refs |-> <<"origin">>,
          file_diffs |-> DiffIndexLoop(r.change, <<>>)]
    ELSE LET fb == _get_diff_fallback(r)
         IN  [raised |-> fb.raised, refs |-> <<"origin">> \o fb.refs,
              file_diffs |-> fb.file_diffs]

\* get_full_diff, lines 176-185: [raised, refs tried, text]
get_full_diff(r) ==
    IF r.origin_ok
    THEN [raised |-> FALSE, refs |-> <<"origin">>, text |-> GitDiffText(r.change)]
    ELSE IF r.local_ok
    THEN [raised |-> FALSE, refs |-> <<"origin", "local">>, text |-> GitDiffText(r.change)]
    ELSE IF r.parent_ok
    THEN [raised |-> FALSE, refs |-> <<"origin", "local", "parent">>,
          text |-> GitDiffText(r.change)]
    ELSE [raised |-> TRUE, refs |-> <<"origin", "local", "parent">>, text |-> <<>>]

FileChange(a, b, deleted, hunks, diff_ok) ==
    [a |-> a, b |-> b, deleted |-> deleted, hunks |-> hunks, diff_ok |-> diff_ok]

FileChanges ==
    { FileChange(PathX, PathX, FALSE, <<HunkItem(5, 2, 10, 3)>>, TRUE),
      FileChange(PathX, PathX, FALSE, <<HunkItem(5, 2, 10, 3)>>, FALSE),
      FileChange(PathY, PathY, TRUE, <<HunkItem(1, 3, 0, 0)>>, TRUE),
      FileChange(PathD, PathD, FALSE, <<HunkItem(0, 0, 1, 2)>>, TRUE),
      FileChange(PathY, PathNote, FALSE, <<>>, TRUE) }

\* a change names each path once
Changes ==
    {c \in SeqsUpTo(FileChanges, MaxFiles) :
        \A i, j \in 1..Len(c) : i # j => {c[i].a, c[i].b} \cap {c[j].a, c[j].b} = {}}

-----------------------------------------------------------------------------
(* SpecAcquire: get_diff and get_full_diff, each called once, in any       *)
(* order, on a loaded repository.  trace holds one entry per call.         *)

InitAcquire ==
    /\ pc = "loaded"
    /\ repo \in [origin_ok : BOOLEAN, local_ok : BOOLEAN, parent_ok : BOOLEAN,
                  index_ok : BOOLEAN, change : Changes]
    /\ file_diffs = <<>>
    /\ full_diff = <<>>
    /\ trace = <<>>
    /\ lines = <<>>
    /\ pyright_results = <<>>
    /\ exit_code = -1
    /\ DiffIdle /\ ReportIdle

Called(call) == \E i \in 1..Len(trace) : trace[i].call = call

GetDiff ==
    /\ pc = "loaded"
    /\ ~Called("get_diff")
    /\ LET r == get_diff(repo)
       IN  /\ trace' = Append(trace, [call |-> "get_diff", refs |-> r.refs, raised |-> r.raised])
           /\ file_diffs' = r.file_diffs
    /\ UNCHANGED <<pc, repo, full_diff, lines, pyright_results, exit_code, diffVars, reportVars>>

GetFullDiff ==
    /\ pc = "loaded"
    /\ ~Called("get_full_diff")
    /\ LET r == get_full_diff(repo)
       IN  /\ trace' = Append(trace, [call |-> "get_full_diff", refs |-> r.refs,
                                      raised |-> r.raised])
           /\ full_diff' = r.text
    /\ UNCHANGED <<pc, repo, file_diffs, lines, pyright_results, exit_code, diffVars, reportVars>>

NextAcquire == GetDiff \/ GetFullDiff

SpecAcquire == InitAcquire /\ [][NextAcquire]_vars

\* the paths of the files the change deletes
DeletedPaths(change) == {change[i].a : i \in {j \in 1..Len(change) : change[j].deleted}}

\* C7: the FileDiffMap that get_diff returns holds no path of a file that
\* the change deletes, on the per-file path and on the fallback path.
C7_NoDeletedFile ==
    Called("get_diff") => KeySet(file_diffs) \cap DeletedPaths(repo.change) = {}

\* the sources a call must try: origin, then local, then parent, up to the
\* first that resolves
SourcesInOrder(r) ==
    IF r.origin_ok THEN <<"origin">>
    ELSE IF r.local_ok THEN <<"origin", "local">>
    ELSE <<"origin", "local", "parent">>

\* C8: get_diff and get_full_diff both try the remote ref, then the local
\* branch, then the parent commit, each only after the earlier ones failed,
\* and raise only when all three failed.
C8_ThreeSourcesInOrder ==
    \A i \in 1..Len(trace) :
        /\ trace[i].refs = SourcesInOrder(repo)
        /\ trace[i].raised <=> ~(repo.origin_ok \/ repo.local_ok \/ repo.parent_ok)

-----------------------------------------------------------------------------
(* SpecMain: the main script, from the construction of the reviewer to the *)
(* end of the process.  trace holds the stages entered and, last, why the  *)
(* process ended.                                                          *)

\* get_instructions, lines 304-318: the first of the three files that is there
InstructionsFile(r) ==
    IF r.custom_file THEN "custom"
    ELSE IF r.repo_file THEN "repo"
    ELSE IF r.default_file THEN "default"
    ELSE "none"

InitMain ==
    /\ pc = "load_repo"
    /\ repo \in [valid : BOOLEAN, origin_ok : BOOLEAN, index_ok : BOOLEAN,
                  change : Changes, custom_file : BOOLEAN, repo_file : BOOLEAN,
                  default_file : BOOLEAN, api_key : BOOLEAN]
    /\ file_diffs = <<>>
    /\ pyright_results = <<>>
    /\ trace = <<>>
    /\ exit_code = -1
    /\ DiffIdle /\ ReportIdle /\ PromptIdle

mainFrame == <<repo, diffVars, reportVars, promptVars>>

\* main line 16, _load_repo lines 59-69
LoadRepo ==
    /\ pc = "load_repo"
    /\ IF repo.valid
       THEN /\ pc' = "get_diff"
            /\ UNCHANGED <<trace, exit_code>>
       ELSE /\ pc' = "exited"
            /\ trace' = Append(trace, "invalid repository")
            /\ exit_code' = 1
    /\ UNCHANGED <<file_diffs, pyright_results, mainFrame>>

\* main lines 17-20; an exception that leaves get_diff ends the process
MainGetDiff ==
    /\ pc = "get_diff"
    /\ LET r == get_diff(repo)
       IN  IF r.raised
           THEN /\ pc' = "exited"
                /\ trace' = trace \o <<"get_diff", "uncaught GitCommandError">>
                /\ exit_code' = 1
                /\ UNCHANGED file_diffs
           ELSE IF r.file_diffs = <<>>
           THEN /\ pc' = "exited"
                /\ trace' = trace \o <<"get_diff", "no changes">>
                /\ exit_code' = 0
                /\ UNCHANGED file_diffs
           ELSE /\ pc' = "run_pyright"
                /\ trace' = Append(trace, "get_diff")
                /\ file_diffs' = r.file_diffs
                /\ UNCHANGED exit_code
    /\ UNCHANGED <<pyright_results, mainFrame>>

\* main line 21
MainRunPyright ==
    /\ pc = "run_pyright"
    /\ \E runs \in [1..Len(file_diffs) -> Runs] :
          LET r == run_pyright_on_files(file_diffs, runs)
          IN  IF r.raised = "none"
              THEN /\ pc' = "get_instructions"
                   /\ trace' = Append(trace, "run_pyright")
                   /\ pyright_results' = r.results
                   /\ UNCHANGED exit_code
              ELSE /\ pc' = "exited"
                   /\ trace' = trace \o <<"run_pyright", "uncaught " \o r.raised>>
                   /\ exit_code' = 1
                   /\ UNCHANGED pyright_results
    /\ UNCHANGED <<file_diffs, mainFrame>>

\* main line 22
MainGetInstructions ==
    /\ pc = "get_instructions"
    /\ IF InstructionsFile(repo) = "none"
       THEN /\ pc' = "exited"
            /\ trace' = trace \o <<"get_instructions", "no instructions">>
            /\ exit_code' = 1
       ELSE /\ pc' = "build_prompt"
            /\ trace' = Append(trace, "get_instructions")
            /\ UNCHANGED exit_code
    /\ UNCHANGED <<file_diffs, pyright_results, mainFrame>>

\* the parameters build_prompt declares after self, lines 323-328
BuildPromptParameters == <<"file_diffs", "pyright_results", "full_diff">>

\* the arguments main passes, line 23
BuildPromptArguments == <<"file_diffs", "pyright_results">>

\* main line 23: a call that leaves a parameter without a value raises
\* TypeError before the body of build_prompt runs, and main catches nothing
MainBuildPrompt ==
    /\ pc = "build_prompt"
    /\ Len(BuildPromptArguments) < Len(BuildPromptParameters)
    /\ pc' = "exited"
    /\ trace' = trace \o <<"build_prompt", "uncaught TypeError">>
    /\ exit_code' = 1
    /\ UNCHANGED <<file_diffs, pyright_results, mainFrame>>

NextMain ==
    LoadRepo \/ MainGetDiff \/ MainRunPyright \/ MainGetInstructions \/ MainBuildPrompt

SpecMain == InitMain /\ [][NextMain]_vars

\* why a run may end before the language-model call
EarlyEnds ==
    { <<"no changes", 0>>, <<"invalid repository", 1>>, <<"no instructions", 1>>,
      <<"missing credential", 1>> }

\* C6: a run on a valid repository in which get_diff detects a changed file
\* goes, when an instructions file and the credential are there, through
\* diff extraction, analyzer invocation, instructions loading and prompt
\* assembly to the language-model call, in this order; such a run ends
\* before that call only by a fatal condition (status 1), the no-changes
\* exit being that of the runs without a changed file.
C6_RunReachesModelCall ==
    (exit_code # -1 /\ repo.valid /\ file_diffs # <<>>) =>
        /\ (InstructionsFile(repo) # "none" /\ repo.api_key)
              => /\ Len(trace) >= 5
                 /\ SubSeq(trace, 1, 5) = <<"get_diff", "run_pyright", "get_instructions",
                                            "build_prompt", "call_openai">>
        /\ ~InList("call_openai", trace)
              => <<trace[Len(trace)], exit_code>> \in EarlyEnds

=============================================================================
